---- MODULE Spec2Model ----
(***************************************************************************)
(* Model of the Real-Time IPC Monitor: the RealTimeAnalyzer                *)
(* (core/realtime_analyzer.py), the sampler it polls                       *)
(* (core/system_inspector.py), the MonitorWorker thread (gui/worker.py)    *)
(* and the parts of IPCMainWindow (gui/main_window.py) that start, stop    *)
(* and read them.                                                          *)
(*                                                                         *)
(* Conventions.  A Python dict that keeps insertion order is a sequence of *)
(* records [name, Total_Wait_Time].  An optional event (None or a dict) is *)
(* a sequence of length 0 or 1, which is also what events[-1:] yields.     *)
(* Floats that only ever hold whole numbers (time_delta = 1.0) are         *)
(* integers; the throughput rate is drawn from the end points of           *)
(* random.uniform(5.0, 15.0).                                              *)
(***************************************************************************)
EXTENDS Integers, Sequences, FiniteSets, TLC

\* ------------------------------------------------------------------ bounds
\* Calls of analyze_system_state the workers of Spec begin.
MaxTicks == 2
\* Calls of analyze_system_state in SpecEval.
MaxEvalTicks == 3
\* Calls of analyze_system_state in SpecLong: through the deadlock window and
\* one tick past it.
MaxLongTicks == 17
\* MonitorWorker threads the window creates in one run of Spec.
MaxWorkers == 2
\* Live network connections the sampler reports.
MaxSockets == 1

\* --------------------------------------------------------- program constants
time_delta == 1
ErrorThreshold == 60
WarningThreshold == 30
DeadlockWindowStart == 15
DeadlockWindowEnd == 17

VARIABLES
    analyzer,              \* the RealTimeAnalyzer object's fields
    result,                \* what the last analyze_system_state call returned
    calls,                 \* history: calls of analyze_system_state [ok, raised]
    supplied,              \* history: the samples the sampler supplied, in order
    pending,               \* SpecScan: the sample the next call will receive
    pc,                    \* MonitorWorker w: where its thread is
    stop_event,            \* MonitorWorker w: stop_event.is_set()
    polling_interval_sec,  \* MonitorWorker w: the interval it was built with
    live_data,             \* MonitorWorker w: live_data inside analyze_system_state
    current_events,        \* MonitorWorker w: current_events inside run
    sleep_left,            \* MonitorWorker w: time left of its time.sleep
    monitor_thread,        \* IPCMainWindow.monitor_thread (0 is None)
    is_monitoring,         \* IPCMainWindow.is_monitoring
    gui_pc,                \* where the Tk main thread is
    after_queue,           \* events root.after has scheduled, not yet processed
    plot_locals,           \* locals of plot_throughput_and_contention
    plot,                  \* what the two charts last drew
    tcl_threaded,          \* whether Tcl was built with threads
    callback_log,          \* history: the events the callback was invoked with
    joined,                \* history: workers whose join() has returned
    stop_in_sleep,         \* history: workers stopped while their sleep was running
    since_stop,            \* history: calls and callbacks worker w has begun since its
                           \*          stop() was called, kept until its run returns
    stop_when_dead         \* history: workers whose thread had ended when stop() was
                           \*          called on them, kept until the handler's join() returns

analyzerVars == <<analyzer, result, calls, supplied>>
workerVars == <<pc, stop_event, polling_interval_sec, live_data, current_events,
                sleep_left>>
guiVars == <<monitor_thread, is_monitoring, gui_pc, after_queue, plot_locals, plot,
             tcl_threaded>>
stopHistory == <<joined, stop_in_sleep, stop_when_dead>>
historyVars == <<callback_log, since_stop, stopHistory>>
threadVars == <<workerVars, guiVars, historyVars>>
vars == <<analyzerVars, pending, threadVars>>

\* ------------------------------------------------------------------ sampler
SocketNames == <<"Socket (10.0.0.5:5000 <-> 10.0.0.9:443)",
                 "Socket (10.0.0.5:5001 <-> 10.0.0.9:5432)",
                 "Socket (10.0.0.5:5002 <-> 10.0.0.9:80)">>
LockName == "Lock-A (SHM_Buffer)"
PipeName == "Pipe_Buffer (PID 1 -> PID 2)"
QueueName == "MsgQueue-System-Log"

\* Representative values of random.randint(40, 90), (30, 80), (10, 50), (5, 20).
NetWaits == {40, 60, 61, 90}
LockWaits == {30, 31, 60, 61, 80}
PipeWaits == {10, 30, 31, 50}
QueueWaits == {5, 20}
\* End points of random.uniform(5.0, 15.0).
ThroughputRates == {5, 15}

Entry(n, w) == [name |-> n, Total_Wait_Time |-> w]

\* get_live_network_connections: one entry per connection whose mocked wait
\* time is positive, in the order psutil lists the connections.
RECURSIVE get_live_network_connections(_)
get_live_network_connections(k) ==
    IF k = 0 THEN {<<>>}
    ELSE {s \o t : s \in get_live_network_connections(k - 1),
                   t \in {<<>>} \cup {<<Entry(SocketNames[k], w)>> : w \in NetWaits}}

Optional(n, waits) == {<<>>} \cup {<<Entry(n, w)>> : w \in waits}

\* monitor_resource_contention_mock: network entries first, then the lock, the
\* pipe and the message queue, each present or not; plus a throughput rate.
monitor_resource_contention_mock ==
    {[contention |-> net \o lock \o pipe \o queue, throughput_rate |-> rate] :
        net \in get_live_network_connections(MaxSockets),
        lock \in Optional(LockName, LockWaits),
        pipe \in Optional(PipeName, PipeWaits),
        queue \in Optional(QueueName, QueueWaits),
        rate \in ThroughputRates}

\* The samples SpecEval draws from: a quiet one and one with a warning-level lock,
\* each at both throughput rates.
QuietContention == <<Entry(LockName, 30), Entry(PipeName, 10)>>
WarnContention == <<Entry(LockName, 31)>>
EvalSamples ==
    {s \in monitor_resource_contention_mock :
        s.contention \in {QuietContention, WarnContention}}

\* The samples Spec draws from: the quiet one at the low rate, the warning one at
\* the high rate.
PollSamples ==
    {s \in EvalSamples : (s.contention = QuietContention) <=> (s.throughput_rate = 5)}

\* ----------------------------------------------------------------- analyzer
\* RealTimeAnalyzer.__init__
NewAnalyzer ==
    [total_seconds_monitored |-> 0,
     cumulative_transferred |-> 0,
     throughput_data |-> [Time |-> <<>>, Cumulative_Transferred |-> <<>>],
     events |-> <<>>,
     last_contention_data |-> <<>>]

Event(now, type, message) == [time |-> now, type |-> type, message |-> message]

\* Mutant of AdvanceClock: the clock advances by the time since the last
\* analysis (two units when a poll ran late) instead of the fixed time_delta.
AdvanceClockByElapsed(a) ==
    [a EXCEPT !.total_seconds_monitored =
                  @ + (IF a.events # <<>> THEN 2 * time_delta ELSE time_delta)]

\* analyze_system_state, first statement: the clock advances by time_delta.
AdvanceClock(a) ==
    [a EXCEPT !.total_seconds_monitored = @ + time_delta]

\* analyze_system_state, step 1: the sample's mapping replaces the last one.
StoreContention(a, live) ==
    [a EXCEPT !.last_contention_data = live.contention]

\* Mutant of AddThroughput: the rate overwrites the total instead of adding to it.
AddThroughputOverwriting(a, live) ==
    [a EXCEPT !.cumulative_transferred = live.throughput_rate,
              !.throughput_data.Time = Append(@, a.total_seconds_monitored)]

\* analyze_system_state, step 2, first half: the cumulative total grows and the
\* time of the point is appended.
AddThroughput(a, live) ==
    [a EXCEPT !.cumulative_transferred = @ + live.throughput_rate,
              !.throughput_data.Time = Append(@, a.total_seconds_monitored)]

\* analyze_system_state, step 2, second half: the value of the point is appended.
AppendCumulative(a) ==
    [a EXCEPT !.throughput_data.Cumulative_Transferred =
                  Append(@, a.cumulative_transferred)]

\* Mutant of ScanEntry: an ERROR does not replace a WARNING found earlier.
ScanEntryFirstCandidateWins(cur, e, now) ==
    IF cur # <<>> THEN cur
    ELSE IF e.Total_Wait_Time > ErrorThreshold
         THEN <<Event(now, "ERROR", <<"HIGH CONTENTION", e.name>>)>>
         ELSE IF e.Total_Wait_Time > WarningThreshold
              THEN <<Event(now, "WARNING", <<"CONTENTION WARNING", e.name>>)>>
              ELSE cur

\* One pass of the contention loop body over entry e, current_event being cur.
ScanEntry(cur, e, now) ==
    IF e.Total_Wait_Time > ErrorThreshold
    THEN IF cur = <<>> \/ cur[1].type # "ERROR"
         THEN <<Event(now, "ERROR", <<"HIGH CONTENTION", e.name>>)>>
         ELSE cur
    ELSE IF e.Total_Wait_Time > WarningThreshold
         THEN IF cur = <<>>
              THEN <<Event(now, "WARNING", <<"CONTENTION WARNING", e.name>>)>>
              ELSE cur
         ELSE cur

\* analyze_system_state, step 3: the loop over the mapping, in its order.
RECURSIVE ScanFrom(_, _, _, _)
ScanFrom(cur, contention, i, now) ==
    IF i > Len(contention) THEN cur
    ELSE ScanFrom(ScanEntry(cur, contention[i], now), contention, i + 1, now)

ContentionCheck(contention, now) == ScanFrom(<<>>, contention, 1, now)

deadlock_pairs ==
    <<<<"Lock-A (UserDB)", "Lock-X (Cache_Write)">>,
      <<"Socket (192.168.1.10:5432)", "Lock-A (UserDB)">>,
      <<"Pipe-B (Input_Feed)", "Lock-X (Cache_Write)">>>>

\* Mutant of DeadlockCheck: the injected event replaces whatever the contention
\* check found (the test of current_event is left out).
DeadlockCheckOverriding(cur, now, fires, choice) ==
    IF DeadlockWindowStart < now /\ now < DeadlockWindowEnd /\ fires
    THEN <<Event(now, "ERROR", <<"DEADLOCK (MOCKED)", deadlock_pairs[choice][1],
                                  deadlock_pairs[choice][2]>>)>>
    ELSE cur

\* analyze_system_state, step 4: fires is random.random() > 0.5 and choice the
\* index random.choice picks.
DeadlockCheck(cur, now, fires, choice) ==
    IF DeadlockWindowStart < now /\ now < DeadlockWindowEnd /\ fires /\ cur = <<>>
    THEN <<Event(now, "ERROR", <<"DEADLOCK (MOCKED)", deadlock_pairs[choice][1],
                                  deadlock_pairs[choice][2]>>)>>
    ELSE cur

\* The event of this call, steps 3 and 4 together.
CurrentEvent(a, live, fires, choice) ==
    DeadlockCheck(ContentionCheck(live.contention, a.total_seconds_monitored),
                  a.total_seconds_monitored, fires, choice)

\* Mutant of LogEvent: the newest event is put at the head of the log.
LogEventNewestFirst(a, current_event) ==
    IF current_event # <<>>
    THEN [a EXCEPT !.events = <<current_event[1]>> \o @]
    ELSE a

\* Mutant of LogEvent: only ERROR events are appended to the log.
LogEventErrorsOnly(a, current_event) ==
    IF current_event # <<>> /\ current_event[1].type = "ERROR"
    THEN [a EXCEPT !.events = Append(@, current_event[1])]
    ELSE a

\* analyze_system_state, last step: a truthy event is appended to the log.
LogEvent(a, current_event) ==
    IF current_event # <<>>
    THEN [a EXCEPT !.events = Append(@, current_event[1])]
    ELSE a

\* analyze_system_state from the sampler's return to its own, on analyzer a whose
\* clock has advanced.
AnalyzeSample(a, live, fires, choice) ==
    LET b == AppendCumulative(AddThroughput(StoreContention(a, live), live))
    IN  LogEvent(b, CurrentEvent(b, live, fires, choice))

\* The random draws of one call at clock value now: random.random() is only
\* called inside the deadlock window (the test short-circuits), random.choice
\* only when it came out above 0.5.
RandomDraws(now) ==
    IF DeadlockWindowStart < now /\ now < DeadlockWindowEnd
    THEN {<<FALSE, 1>>} \cup ({TRUE} \X (1..Len(deadlock_pairs)))
    ELSE {<<FALSE, 1>>}

InitHistory ==
    /\ result = <<>>
    /\ calls = [ok |-> 0, raised |-> 0]
    /\ supplied = <<>>

\* One whole call of analyze_system_state that returns.
Evaluate(live) ==
    \E draw \in RandomDraws(analyzer.total_seconds_monitored + time_delta) :
        LET a == AdvanceClock(analyzer)
            ev == CurrentEvent(StoreContention(a, live), live, draw[1], draw[2])
        IN  /\ analyzer' = AnalyzeSample(a, live, draw[1], draw[2])
            /\ result' = ev
            /\ calls' = [calls EXCEPT !.ok = @ + 1]
            /\ supplied' = Append(supplied, live)

\* One call of analyze_system_state in which the sampler raises (psutil denies
\* access, a process has no name): the clock has advanced, nothing else has.
EvaluateRaises ==
    /\ analyzer' = AdvanceClock(analyzer)
    /\ calls' = [calls EXCEPT !.raised = @ + 1]
    /\ UNCHANGED <<result, supplied>>

\* ------------------------------------------------------------------ threads
Workers == 1..MaxWorkers
None == 0

\* The text of the interval entry and what float() makes of it: "abc" raises
\* ValueError, the others parse (in units of the model's clock).  The user's
\* entries are one that is no number, one below zero and one above.
IntervalInputs == {"abc", "-1.0", "1.0"}
FloatOf == ("-1.0" :> -1) @@ ("0" :> 0) @@ ("1.0" :> 1)
ParsesAsFloat(text) == text \in DOMAIN FloatOf

\* threading.Thread.is_alive: started and run() has neither returned nor raised.
is_alive(w) == pc[w] \notin {"unborn", "finished", "crashed"}

NoPlot == [Time |-> <<>>, Cumulative_Transferred |-> <<>>,
           Names |-> <<>>, Wait_Ticks |-> <<>>]

\* IPCMainWindow.__init__ with a fresh analyzer, no worker built yet.
InitThreads ==
    /\ pc = [w \in Workers |-> "unborn"]
    /\ stop_event = [w \in Workers |-> FALSE]
    /\ polling_interval_sec = [w \in Workers |-> 0]
    /\ live_data = [w \in Workers |-> <<>>]
    /\ current_events = [w \in Workers |-> <<>>]
    /\ sleep_left = [w \in Workers |-> 0]
    /\ monitor_thread = None
    /\ is_monitoring = FALSE
    /\ gui_pc = "mainloop"
    /\ after_queue = <<>>
    /\ plot_locals = [contention_data |-> <<>>, Names |-> <<>>]
    /\ plot = NoPlot
    /\ callback_log = <<>>
    /\ joined = {}
    /\ stop_in_sleep = {}
    /\ since_stop = [w \in Workers |-> [evaluate |-> 0, callback |-> 0]]
    /\ stop_when_dead = {}

Init ==
    /\ analyzer = NewAnalyzer
    /\ InitHistory
    /\ pending = <<>>
    /\ InitThreads
    /\ tcl_threaded \in BOOLEAN

\* ----------------------------------------------------------- MonitorWorker
\* time.sleep(polling_interval_sec): a negative length raises ValueError, which
\* ends the thread; otherwise the whole length has to pass.
EnterSleep(w) ==
    IF polling_interval_sec[w] < 0
    THEN /\ pc' = [pc EXCEPT ![w] = "crashed"]
         /\ UNCHANGED sleep_left
    ELSE /\ pc' = [pc EXCEPT ![w] = "sleep"]
         /\ sleep_left' = [sleep_left EXCEPT ![w] = polling_interval_sec[w]]

\* History: run of worker w returns.
ForgetSinceStop(w) == [since_stop EXCEPT ![w] = [evaluate |-> 0, callback |-> 0]]

\* History: worker w begins a call (what = "evaluate") or invokes the callback
\* (what = "callback"); counted when its stop() has been called before.
CountSinceStop(w, what) ==
    since_stop' = IF stop_event[w]
                  THEN [since_stop EXCEPT ![w][what] = @ + 1]
                  ELSE since_stop

\* Mutant of WorkerCheck: the loop tests the flag only once the analyzer has
\* logged an event.
WorkerCheckLate(w) ==
    /\ pc[w] = "check"
    /\ IF stop_event[w] /\ analyzer.events # <<>>
       THEN /\ pc' = [pc EXCEPT ![w] = "finished"]
            /\ since_stop' = ForgetSinceStop(w)
       ELSE /\ analyzer.total_seconds_monitored < MaxTicks
            /\ pc' = [pc EXCEPT ![w] = "analyze"]
            /\ UNCHANGED since_stop
    /\ UNCHANGED <<analyzerVars, pending, stop_event, polling_interval_sec, live_data,
                   current_events, sleep_left, guiVars, callback_log, stopHistory>>

\* run: the loop test.  The model lets a worker begin a new iteration only while
\* the analyzer's clock is below limit.
WorkerCheckBelow(w, limit) ==
    /\ pc[w] = "check"
    /\ IF stop_event[w]
       THEN /\ pc' = [pc EXCEPT ![w] = "finished"]
            /\ since_stop' = ForgetSinceStop(w)
       ELSE /\ analyzer.total_seconds_monitored < limit
            /\ pc' = [pc EXCEPT ![w] = "analyze"]
            /\ UNCHANGED since_stop
    /\ UNCHANGED <<analyzerVars, pending, stop_event, polling_interval_sec, live_data,
                   current_events, sleep_left, guiVars, callback_log, stopHistory>>

WorkerCheck(w) == WorkerCheckBelow(w, MaxTicks)

\* analyze_system_state up to the assignment of last_contention_data, the
\* sampler returning one of samples.
WorkerAnalyzeFrom(w, samples) ==
    /\ pc[w] = "analyze"
    /\ \E live \in samples :
        /\ analyzer' = StoreContention(AdvanceClock(analyzer), live)
        /\ live_data' = [live_data EXCEPT ![w] = <<live>>]
        /\ supplied' = Append(supplied, live)
    /\ pc' = [pc EXCEPT ![w] = "throughput"]
    /\ CountSinceStop(w, "evaluate")
    /\ UNCHANGED <<result, calls, pending, stop_event, polling_interval_sec,
                   current_events, sleep_left, guiVars, callback_log, stopHistory>>

WorkerAnalyze(w) == WorkerAnalyzeFrom(w, PollSamples)

\* analyze_system_state when the sampler raises: the exception leaves run.
WorkerSamplerRaises(w) ==
    /\ pc[w] = "analyze"
    /\ EvaluateRaises
    /\ pc' = [pc EXCEPT ![w] = "crashed"]
    /\ CountSinceStop(w, "evaluate")
    /\ UNCHANGED <<pending, stop_event, polling_interval_sec, live_data,
                   current_events, sleep_left, guiVars, callback_log, stopHistory>>

\* analyze_system_state: the cumulative total and the Time list.
WorkerThroughput(w) ==
    /\ pc[w] = "throughput"
    /\ analyzer' = AddThroughput(analyzer, live_data[w][1])
    /\ pc' = [pc EXCEPT ![w] = "append"]
    /\ UNCHANGED <<result, calls, supplied, pending, stop_event,
                   polling_interval_sec, live_data, current_events, sleep_left,
                   guiVars, historyVars>>

\* analyze_system_state: the Cumulative_Transferred list.
WorkerAppend(w) ==
    /\ pc[w] = "append"
    /\ analyzer' = AppendCumulative(analyzer)
    /\ pc' = [pc EXCEPT ![w] = "classify"]
    /\ UNCHANGED <<result, calls, supplied, pending, stop_event,
                   polling_interval_sec, live_data, current_events, sleep_left,
                   guiVars, historyVars>>

\* run, step 2: what the worker takes to be this iteration's event.
LatestEvent(a, returned) ==
    IF a.events = <<>> THEN <<>> ELSE <<a.events[Len(a.events)]>>

\* analyze_system_state from the contention check to its return, then run up to
\* the test of current_events.
WorkerClassify(w) ==
    /\ pc[w] = "classify"
    /\ \E draw \in RandomDraws(analyzer.total_seconds_monitored) :
        LET ev == CurrentEvent(analyzer, live_data[w][1], draw[1], draw[2])
            a == LogEvent(analyzer, ev)
            latest == LatestEvent(a, ev)
        IN  /\ analyzer' = a
            /\ result' = ev
            /\ current_events' = [current_events EXCEPT ![w] = latest]
            /\ IF latest # <<>>
               THEN /\ pc' = [pc EXCEPT ![w] = "callback"]
                    /\ UNCHANGED sleep_left
               ELSE EnterSleep(w)
    /\ calls' = [calls EXCEPT !.ok = @ + 1]
    /\ UNCHANGED <<supplied, pending, stop_event, polling_interval_sec,
                   live_data, guiVars, historyVars>>

\* run, step 3: callback(current_events[0]) is receive_live_event, which calls
\* root.after(0, ...).  Without Tcl threads the call registers the timer in the
\* worker's thread; with them it is queued for the main thread and the worker
\* waits until the main loop has run it.
WorkerCallback(w) ==
    /\ pc[w] = "callback"
    /\ callback_log' = Append(callback_log, current_events[w][1])
    /\ CountSinceStop(w, "callback")
    /\ IF tcl_threaded
       THEN /\ pc' = [pc EXCEPT ![w] = "marshalled"]
            /\ UNCHANGED <<after_queue, sleep_left>>
       ELSE /\ after_queue' = Append(after_queue, current_events[w][1])
            /\ EnterSleep(w)
    /\ UNCHANGED <<analyzerVars, pending, stop_event, polling_interval_sec, live_data,
                   current_events, monitor_thread, is_monitoring, gui_pc, plot_locals,
                   plot, tcl_threaded, stopHistory>>

\* The main loop runs the queued root.after call of worker w; the worker goes on
\* to its sleep.
ServeMarshalledCall(w) ==
    /\ gui_pc = "mainloop"
    /\ pc[w] = "marshalled"
    /\ after_queue' = Append(after_queue, current_events[w][1])
    /\ EnterSleep(w)
    /\ UNCHANGED <<analyzerVars, pending, stop_event, polling_interval_sec, live_data,
                   current_events, monitor_thread, is_monitoring, gui_pc, plot_locals,
                   plot, tcl_threaded, historyVars>>

\* A unit of time passes for a sleeping worker.
SleepTick(w) ==
    /\ pc[w] = "sleep"
    /\ sleep_left[w] > 0
    /\ sleep_left' = [sleep_left EXCEPT ![w] = @ - 1]
    /\ UNCHANGED <<analyzerVars, pending, pc, stop_event, polling_interval_sec,
                   live_data, current_events, guiVars, historyVars>>

\* Whether time.sleep may return: only once its whole length has passed, whatever
\* stop_event says.
SleepOver(w) == sleep_left[w] = 0

\* run, step 4: time.sleep returns.
WorkerWake(w) ==
    /\ pc[w] = "sleep"
    /\ SleepOver(w)
    /\ pc' = [pc EXCEPT ![w] = "check"]
    /\ UNCHANGED <<analyzerVars, pending, stop_event, polling_interval_sec, live_data,
                   current_events, sleep_left, guiVars, historyVars>>

\* MonitorWorker.stop
Stop(w) ==
    /\ stop_event' = [stop_event EXCEPT ![w] = TRUE]
    /\ stop_in_sleep' = IF pc[w] = "sleep" /\ sleep_left[w] > 0
                        THEN stop_in_sleep \cup {w} ELSE stop_in_sleep
    /\ stop_when_dead' = IF is_alive(w) THEN stop_when_dead ELSE stop_when_dead \cup {w}

\* ------------------------------------------------------------ IPCMainWindow
\* Mutant of ToggleStart: the handler starts the worker object it already has
\* again instead of building a new one.
ToggleStartSameWorker(text) ==
    /\ gui_pc = "mainloop"
    /\ ~is_monitoring
    /\ IF ~ParsesAsFloat(text)
       THEN UNCHANGED <<workerVars, monitor_thread, is_monitoring>>
       ELSE \E w \in Workers :
            /\ IF monitor_thread = None THEN w = 1 ELSE w = monitor_thread
            /\ pc' = [pc EXCEPT ![w] = "check"]
            /\ polling_interval_sec' = [polling_interval_sec EXCEPT ![w] = FloatOf[text]]
            /\ monitor_thread' = w
            /\ is_monitoring' = TRUE
            /\ UNCHANGED <<stop_event, live_data, current_events, sleep_left>>
    /\ UNCHANGED <<analyzerVars, pending, gui_pc, after_queue, plot_locals, plot,
                   tcl_threaded, historyVars>>

\* Mutant of ToggleStart: every start of monitoring builds a new analyzer for the
\* new worker.
ToggleStartFreshAnalyzer(text) ==
    /\ gui_pc = "mainloop"
    /\ ~is_monitoring
    /\ IF ~ParsesAsFloat(text)
       THEN UNCHANGED <<workerVars, monitor_thread, is_monitoring, analyzer>>
       ELSE \E w \in Workers :
            /\ pc[w] = "unborn"
            /\ \A v \in Workers : v < w => pc[v] # "unborn"
            /\ pc' = [pc EXCEPT ![w] = "check"]
            /\ polling_interval_sec' = [polling_interval_sec EXCEPT ![w] = FloatOf[text]]
            /\ monitor_thread' = w
            /\ is_monitoring' = TRUE
            /\ analyzer' = NewAnalyzer
            /\ UNCHANGED <<stop_event, live_data, current_events, sleep_left>>
    /\ UNCHANGED <<result, calls, supplied, pending, gui_pc, after_queue, plot_locals,
                   plot, tcl_threaded, historyVars>>

\* Mutant of ToggleStart: a worker is built and started whether or not one is
\* being monitored already (the handler does not look at is_monitoring).
ToggleStartWhileMonitoring(text) ==
    /\ gui_pc = "mainloop"
    /\ IF ~ParsesAsFloat(text)
       THEN UNCHANGED <<workerVars, monitor_thread, is_monitoring>>
       ELSE \E w \in Workers :
            /\ pc[w] = "unborn"
            /\ \A v \in Workers : v < w => pc[v] # "unborn"
            /\ pc' = [pc EXCEPT ![w] = "check"]
            /\ polling_interval_sec' = [polling_interval_sec EXCEPT ![w] = FloatOf[text]]
            /\ monitor_thread' = w
            /\ is_monitoring' = TRUE
            /\ UNCHANGED <<stop_event, live_data, current_events, sleep_left>>
    /\ UNCHANGED <<analyzerVars, pending, gui_pc, after_queue, plot_locals, plot,
                   tcl_threaded, historyVars>>

\* toggle_monitoring, not monitoring: the interval is parsed and a worker built
\* and started; text that is no float only logs an error.
ToggleStart(text) ==
    /\ gui_pc = "mainloop"
    /\ ~is_monitoring
    /\ IF ~ParsesAsFloat(text)
       THEN UNCHANGED <<workerVars, monitor_thread, is_monitoring>>
       ELSE \E w \in Workers :
            /\ pc[w] = "unborn"
            /\ \A v \in Workers : v < w => pc[v] # "unborn"
            /\ pc' = [pc EXCEPT ![w] = "check"]
            /\ polling_interval_sec' = [polling_interval_sec EXCEPT ![w] = FloatOf[text]]
            /\ monitor_thread' = w
            /\ is_monitoring' = TRUE
            /\ UNCHANGED <<stop_event, live_data, current_events, sleep_left>>
    /\ UNCHANGED <<analyzerVars, pending, gui_pc, after_queue, plot_locals, plot,
                   tcl_threaded, historyVars>>

\* toggle_monitoring, monitoring: stop() and the call of join().
ToggleStop ==
    /\ gui_pc = "mainloop"
    /\ is_monitoring
    /\ IF monitor_thread # None
       THEN /\ Stop(monitor_thread)
            /\ gui_pc' = "toggle_join"
            /\ UNCHANGED is_monitoring
       ELSE /\ is_monitoring' = FALSE
            /\ UNCHANGED <<stop_event, stop_in_sleep, stop_when_dead, gui_pc>>
    /\ UNCHANGED <<analyzerVars, pending, pc, polling_interval_sec, live_data,
                   current_events, sleep_left, monitor_thread, after_queue, plot_locals,
                   plot, tcl_threaded, callback_log, since_stop, joined>>

\* Mutant of JoinReturns: join() gives up at once (a zero timeout).
JoinReturnsAtOnce(w) == TRUE

\* threading.Thread.join returns for worker w: its thread has ended.
JoinReturns(w) == ~is_alive(w)

\* toggle_monitoring, monitoring: join() returns and the handler finishes.
ToggleJoined ==
    /\ gui_pc = "toggle_join"
    /\ JoinReturns(monitor_thread)
    /\ joined' = joined \cup {monitor_thread}
    /\ is_monitoring' = FALSE
    /\ gui_pc' = "mainloop"
    /\ stop_when_dead' = {}
    /\ UNCHANGED <<analyzerVars, pending, workerVars, monitor_thread, after_queue,
                   plot_locals, plot, tcl_threaded, callback_log, since_stop,
                   stop_in_sleep>>

\* on_closing: a live worker is stopped and joined, then the window is destroyed.
Close ==
    /\ gui_pc = "mainloop"
    /\ IF monitor_thread # None /\ is_alive(monitor_thread)
       THEN /\ Stop(monitor_thread)
            /\ gui_pc' = "close_join"
       ELSE /\ gui_pc' = "destroyed"
            /\ UNCHANGED <<stop_event, stop_in_sleep, stop_when_dead>>
    /\ UNCHANGED <<analyzerVars, pending, pc, polling_interval_sec, live_data,
                   current_events, sleep_left, monitor_thread, is_monitoring,
                   after_queue, plot_locals, plot, tcl_threaded, callback_log,
                   since_stop, joined>>

\* on_closing: join() returns and root.destroy() runs.
CloseJoined ==
    /\ gui_pc = "close_join"
    /\ JoinReturns(monitor_thread)
    /\ joined' = joined \cup {monitor_thread}
    /\ gui_pc' = "destroyed"
    /\ UNCHANGED <<analyzerVars, pending, workerVars, monitor_thread, is_monitoring,
                   after_queue, plot_locals, plot, tcl_threaded, callback_log,
                   since_stop, stop_in_sleep, stop_when_dead>>

\* get_contention_data: the names, from the mapping the local variable holds.
NamesOf(contention_data) ==
    [i \in 1..Len(contention_data) |-> contention_data[i].name]

\* Mutant of WaitTicksOf: the wait ticks are read from self.last_contention_data
\* again instead of from the local variable.
WaitTicksReadAgain(local, a) ==
    [i \in 1..Len(a.last_contention_data) |->
        a.last_contention_data[i].Total_Wait_Time]

\* get_contention_data: the wait ticks, from the mapping the local variable holds
\* (local) and not from the analyzer as it is by then (a).
WaitTicksOf(local, a) ==
    [i \in 1..Len(local) |-> local[i].Total_Wait_Time]

\* process_event_and_update_ui for the oldest scheduled event, up to the Names
\* list of get_contention_data.
ProcessEvent ==
    /\ gui_pc = "mainloop"
    /\ after_queue # <<>>
    /\ after_queue' = Tail(after_queue)
    /\ plot_locals' = [contention_data |-> analyzer.last_contention_data,
                       Names |-> NamesOf(analyzer.last_contention_data)]
    /\ gui_pc' = "plotting"
    /\ UNCHANGED <<analyzerVars, pending, workerVars, monitor_thread, is_monitoring,
                   plot, tcl_threaded, historyVars>>

\* plot_throughput_and_contention: the Wait_Ticks list, then the two charts are
\* drawn from the analyzer's throughput lists as they are now.
DrawPlots ==
    /\ gui_pc = "plotting"
    /\ plot' = [Time |-> analyzer.throughput_data.Time,
                Cumulative_Transferred |->
                    analyzer.throughput_data.Cumulative_Transferred,
                Names |-> plot_locals.Names,
                Wait_Ticks |-> WaitTicksOf(plot_locals.contention_data, analyzer)]
    /\ gui_pc' = "mainloop"
    /\ UNCHANGED <<analyzerVars, pending, workerVars, monitor_thread, is_monitoring,
                   after_queue, plot_locals, tcl_threaded, historyVars>>

\* ---------------------------------------------------------------------- Spec
WorkerStep(w) ==
    \/ WorkerCheck(w)
    \/ WorkerAnalyze(w)
    \/ WorkerThroughput(w)
    \/ WorkerAppend(w)
    \/ WorkerClassify(w)
    \/ WorkerCallback(w)
    \/ WorkerWake(w)

Next ==
    \/ \E w \in Workers : WorkerStep(w)
    \/ \E w \in Workers : WorkerSamplerRaises(w)
    \/ \E w \in Workers : SleepTick(w)
    \/ \E w \in Workers : ServeMarshalledCall(w)
    \/ \E text \in IntervalInputs : ToggleStart(text)
    \/ ToggleStop
    \/ ToggleJoined
    \/ Close
    \/ CloseJoined
    \/ ProcessEvent
    \/ DrawPlots

Spec == Init /\ [][Next]_vars

\* The scheduler runs every thread that can run, time passes, and the Tk main
\* loop serves what is queued for it; the user and the sampler's failures are
\* under no obligation.
Fairness ==
    /\ \A w \in Workers : WF_vars(WorkerStep(w))
    /\ \A w \in Workers : WF_vars(SleepTick(w))
    /\ \A w \in Workers : WF_vars(ServeMarshalledCall(w))
    /\ WF_vars(ToggleJoined)
    /\ WF_vars(CloseJoined)
    /\ WF_vars(ProcessEvent)
    /\ WF_vars(DrawPlots)

FairSpec == Spec /\ Fairness

\* ------------------------------------------------------------- SpecEval
\* A single caller invoking analyze_system_state again and again.
InitEval ==
    /\ analyzer = NewAnalyzer
    /\ InitHistory
    /\ pending = <<>>
    /\ InitThreads
    /\ tcl_threaded = TRUE

EvalCall ==
    /\ analyzer.total_seconds_monitored < MaxEvalTicks
    /\ \E live \in EvalSamples : Evaluate(live)
    /\ UNCHANGED <<pending, threadVars>>

EvalCallRaises ==
    /\ analyzer.total_seconds_monitored < MaxEvalTicks
    /\ EvaluateRaises
    /\ UNCHANGED <<pending, threadVars>>

NextEval == EvalCall \/ EvalCallRaises

SpecEval == InitEval /\ [][NextEval]_vars

\* ------------------------------------------------------------- SpecLong
\* A single caller whose calls all return, long enough to enter the window of
\* the mocked deadlock check.
LongCall ==
    /\ analyzer.total_seconds_monitored < MaxLongTicks
    /\ \E live \in PollSamples : Evaluate(live)
    /\ UNCHANGED <<pending, threadVars>>

NextLong == LongCall

SpecLong == InitEval /\ [][NextLong]_vars

\* ------------------------------------------------------------- SpecScan
\* One call on a fresh analyzer, the sample drawn from everything the sampler
\* can return.
InitScan ==
    /\ analyzer = NewAnalyzer
    /\ InitHistory
    /\ pending \in {<<s>> : s \in monitor_resource_contention_mock}
    /\ InitThreads
    /\ tcl_threaded = TRUE

ScanCall ==
    /\ pending # <<>>
    /\ Evaluate(pending[1])
    /\ pending' = <<>>
    /\ UNCHANGED threadVars

NextScan == ScanCall

SpecScan == InitScan /\ [][NextScan]_vars

\* ---------------------------------------------------------- SpecSession
\* The window and its workers as in Spec, over a session long enough to pass
\* through the window of the mocked deadlock check: the sampler reports the same
\* quiet sample at every poll and never fails, and the intervals the user enters
\* are one that is no number and a positive one.
SessionSamples == {[contention |-> QuietContention, throughput_rate |-> 5]}
SessionIntervals == {"abc", "1.0"}

SessionWorkerStep(w) ==
    \/ WorkerCheckBelow(w, MaxLongTicks)
    \/ WorkerAnalyzeFrom(w, SessionSamples)
    \/ WorkerThroughput(w)
    \/ WorkerAppend(w)
    \/ WorkerClassify(w)
    \/ WorkerCallback(w)
    \/ WorkerWake(w)

NextSession ==
    \/ \E w \in Workers : SessionWorkerStep(w)
    \/ \E w \in Workers : SleepTick(w)
    \/ \E w \in Workers : ServeMarshalledCall(w)
    \/ \E text \in SessionIntervals : ToggleStart(text)
    \/ ToggleStop
    \/ ToggleJoined
    \/ Close
    \/ CloseJoined
    \/ ProcessEvent
    \/ DrawPlots

SpecSession == Init /\ [][NextSession]_vars

\* -------------------------------------------------------- SpecMalformed
\* One call on a fresh analyzer whose sampler has been replaced by one that may
\* hand back entries the stock sampler never builds: a negative wait time, or no
\* 'Total_Wait_Time' key at all.
NegativeWait == -1
HasWaitTime(e) == "Total_Wait_Time" \in DOMAIN e
MalformedOptional(n, waits) ==
    {<<>>, <<[name |-> n]>>, <<Entry(n, NegativeWait)>>} \cup {<<Entry(n, w)>> : w \in waits}

MalformedSamples ==
    {[contention |-> lock \o pipe \o queue, throughput_rate |-> rate] :
        lock \in MalformedOptional(LockName, {31, 61}),
        pipe \in MalformedOptional(PipeName, {31, 50}),
        queue \in MalformedOptional(QueueName, {5}),
        rate \in ThroughputRates}

\* One call of analyze_system_state in which data['Total_Wait_Time'] raises
\* KeyError in the contention loop: the clock, the snapshot, the total and both
\* lists have been written, nothing is logged and nothing returned.
EvaluateKeyError(live) ==
    /\ analyzer' = AppendCumulative(AddThroughput(
                        StoreContention(AdvanceClock(analyzer), live), live))
    /\ calls' = [calls EXCEPT !.raised = @ + 1]
    /\ supplied' = Append(supplied, live)
    /\ UNCHANGED result

InitMalformed ==
    /\ analyzer = NewAnalyzer
    /\ InitHistory
    /\ pending \in {<<s>> : s \in MalformedSamples}
    /\ InitThreads
    /\ tcl_threaded = TRUE

MalformedCallReturns ==
    /\ pending # <<>>
    /\ \A i \in 1..Len(pending[1].contention) : HasWaitTime(pending[1].contention[i])
    /\ Evaluate(pending[1])
    /\ pending' = <<>>
    /\ UNCHANGED threadVars

MalformedCallRaises ==
    /\ pending # <<>>
    /\ \E i \in 1..Len(pending[1].contention) : ~HasWaitTime(pending[1].contention[i])
    /\ EvaluateKeyError(pending[1])
    /\ pending' = <<>>
    /\ UNCHANGED threadVars

NextMalformed == MalformedCallReturns \/ MalformedCallRaises

SpecMalformed == InitMalformed /\ [][NextMalformed]_vars

\* =================================================================== claims
IsPrefix(s, t) == Len(s) <= Len(t) /\ \A i \in 1..Len(s) : s[i] = t[i]

RECURSIVE SumRates(_)
SumRates(s) == IF s = <<>> THEN 0 ELSE s[1].throughput_rate + SumRates(Tail(s))

SetMin(S) == CHOOSE i \in S : \A j \in S : i <= j

\* C1: the events handed to the callback are the events appended to the log, in
\* order, each once: the callback's sequence is always a prefix of the log, and
\* equals it whenever no worker stands between analyze_system_state's return and
\* the callback.
C1_CallbackSequenceIsEventLog ==
    /\ IsPrefix(callback_log, analyzer.events)
    /\ (\A w \in Workers : pc[w] # "callback") => callback_log = analyzer.events

\* C2: a call of analyze_system_state returns at most one event and appends to
\* the log exactly what it returns (nothing when it returns none or raises), so
\* the log never has more entries than calls were made.
C2_AtMostOneEventPerCall ==
    /\ [](Len(analyzer.events) <= calls.ok + calls.raised)
    /\ [][(calls'.ok # calls.ok =>
              (Len(result') <= 1 /\ analyzer'.events = analyzer.events \o result'))
          /\ (calls'.raised # calls.raised =>
                 analyzer'.events = analyzer.events)]_vars

\* C2 witness: the last call returned the injected event, an earlier one a
\* contention event, and some call returned none.
C2_Witness ==
    /\ result # <<>>
    /\ result[1].message[1] = "DEADLOCK (MOCKED)"
    /\ Len(analyzer.events) >= 2
    /\ Len(analyzer.events) < calls.ok

\* C3: after one call on sample c the result is an ERROR naming the first entry
\* above 60 if there is one, else a WARNING naming the first entry above 30 if
\* there is one, else nothing; 60 itself is warning level and 30 itself nothing.
C3_FirstErrorElseFirstWarning ==
    calls.ok = 1 =>
        LET c == supplied[1].contention
            errors == {i \in 1..Len(c) : c[i].Total_Wait_Time > 60}
            warnings == {i \in 1..Len(c) : c[i].Total_Wait_Time > 30}
        IN  IF errors # {}
            THEN /\ Len(result) = 1
                 /\ result[1].type = "ERROR"
                 /\ result[1].message = <<"HIGH CONTENTION", c[SetMin(errors)].name>>
            ELSE IF warnings # {}
                 THEN /\ Len(result) = 1
                      /\ result[1].type = "WARNING"
                      /\ result[1].message =
                             <<"CONTENTION WARNING", c[SetMin(warnings)].name>>
                 ELSE result = <<>>

\* C3 witness: the call has returned an ERROR for a sample in which an entry in
\* (30, 60] comes before the first entry above 60 and another entry is exactly 30.
C3_Witness ==
    /\ calls.ok = 1
    /\ result # <<>>
    /\ result[1].type = "ERROR"
    /\ LET c == supplied[1].contention
       IN  /\ \E i, j \in 1..Len(c) :
                /\ i < j
                /\ c[i].Total_Wait_Time = 60
                /\ c[j].Total_Wait_Time > 60
                /\ result[1].message[2] = c[j].name
           /\ \E k \in 1..Len(c) : c[k].Total_Wait_Time = 30

\* C4: the clock equals the number of calls made (one tick of size 1 for every
\* call, also for one in which the sampler raises), so after n calls that all
\* returned it is n; and every call moves it up by exactly one, nothing else
\* moves it.
C4_ClockCountsCalls ==
    /\ [](analyzer.total_seconds_monitored = calls.ok + calls.raised)
    /\ [][IF calls' # calls
          THEN analyzer'.total_seconds_monitored = analyzer.total_seconds_monitored + 1
          ELSE analyzer'.total_seconds_monitored = analyzer.total_seconds_monitored]_vars

\* C4 witness: two calls made, both returned, the clock at 2.
C4_Witness ==
    /\ calls = [ok |-> 2, raised |-> 0]
    /\ analyzer.total_seconds_monitored = 2

\* C5: with n samples supplied, cumulative_transferred is the sum of their n
\* rates, the series has n points, point i holds the sum of the first i rates,
\* the times increase strictly; a call that returns appends the one point
\* (clock, cumulative_transferred) and never lowers the total.
C5_CumulativeIsSumOfRates ==
    /\ [](LET time == analyzer.throughput_data.Time
              cumul == analyzer.throughput_data.Cumulative_Transferred
          IN  /\ analyzer.cumulative_transferred = SumRates(supplied)
              /\ Len(time) = Len(supplied)
              /\ Len(cumul) = Len(supplied)
              /\ \A i \in 1..Len(cumul) : cumul[i] = SumRates(SubSeq(supplied, 1, i))
              /\ \A i \in 1..(Len(time) - 1) : time[i] < time[i + 1])
    /\ [][(analyzer'.cumulative_transferred >= analyzer.cumulative_transferred)
          /\ (calls'.ok # calls.ok =>
                 (/\ analyzer'.throughput_data.Time =
                        Append(analyzer.throughput_data.Time,
                               analyzer'.total_seconds_monitored)
                  /\ analyzer'.throughput_data.Cumulative_Transferred =
                        Append(analyzer.throughput_data.Cumulative_Transferred,
                               analyzer'.cumulative_transferred)))]_vars

\* C5 witness: two samples with different rates supplied, two points in the series.
C5_Witness ==
    /\ Len(supplied) = 2
    /\ supplied[1].throughput_rate # supplied[2].throughput_rate
    /\ Len(analyzer.throughput_data.Cumulative_Transferred) = 2

\* C6: once a live worker's stop() has been called its thread ends, and the
\* join() the window then waits in returns, whatever the worker was doing.
C6_StopLeadsToStoppedAndJoinReturns ==
    /\ \A w \in Workers : (stop_event[w] /\ is_alive(w)) ~> ~is_alive(w)
    /\ (gui_pc = "toggle_join") ~> (gui_pc = "mainloop")
    /\ (gui_pc = "close_join") ~> (gui_pc = "destroyed")

\* C7: a worker whose join() has returned is no longer alive and takes no
\* further step: no call of analyze_system_state, no call of the callback.
C7_NoStepAfterJoin ==
    /\ [](\A w \in joined : ~is_alive(w))
    /\ [][\A w \in joined :
            ~(WorkerStep(w) \/ WorkerSamplerRaises(w) \/ SleepTick(w)
              \/ ServeMarshalledCall(w))]_vars

\* C7 witness: a worker that has invoked the callback was stopped, has finished
\* and has been joined.
C7_Witness ==
    \E w \in joined :
        /\ stop_event[w]
        /\ pc[w] = "finished"
        /\ callback_log # <<>>

\* C8: a worker whose stop() was called while its sleep still had time to run
\* leaves the sleep with some of that time not elapsed.
C8_StopCutsSleepShort ==
    \A w \in stop_in_sleep : pc[w] # "sleep" => sleep_left[w] > 0

\* C9: the names and the wait ticks a get_contention_data read returns are those
\* of one supplied sample (or of the empty initial mapping), position by position.
C9_SnapshotFromOneSample ==
    \E c \in {<<>>} \cup {supplied[k].contention : k \in 1..Len(supplied)} :
        /\ Len(plot.Names) = Len(c)
        /\ Len(plot.Wait_Ticks) = Len(c)
        /\ \A i \in 1..Len(c) :
            /\ plot.Names[i] = c[i].name
            /\ plot.Wait_Ticks[i] = c[i].Total_Wait_Time

\* C9 witness: in the middle of a read that took the names from one sample, a
\* call of analyze_system_state has replaced the mapping by another sample's.
C9_Witness ==
    /\ gui_pc = "plotting"
    /\ plot_locals.Names # <<>>
    /\ plot_locals.contention_data # analyzer.last_contention_data
    /\ Len(plot_locals.contention_data) # Len(analyzer.last_contention_data)

\* C10: what the window reads for its charts is never torn: as many time values
\* as cumulative values, and the contention mapping of the same call as the last
\* point of the series.
C10_NoTornRead ==
    /\ Len(plot.Time) = Len(plot.Cumulative_Transferred)
    /\ plot.Time # <<>> =>
        LET c == supplied[Len(plot.Time)].contention
        IN  /\ plot.Names = [i \in 1..Len(c) |-> c[i].name]
            /\ plot.Wait_Ticks = [i \in 1..Len(c) |-> c[i].Total_Wait_Time]

\* C11: at most one worker thread is alive at any time, every change of the
\* analyzer is a step of analyze_system_state made by that one live worker, and
\* no step of the Tk thread (toggle_monitoring, on_closing, the event handler,
\* the plots) changes the analyzer.
AnalyzerStep(w) ==
    \/ WorkerAnalyze(w)
    \/ WorkerSamplerRaises(w)
    \/ WorkerThroughput(w)
    \/ WorkerAppend(w)
    \/ WorkerClassify(w)

C11_OneLiveWorkerOwnsAnalyzer ==
    /\ [](Cardinality({w \in Workers : is_alive(w)}) <= 1)
    /\ [][analyzer' # analyzer =>
            \E w \in Workers :
                /\ is_alive(w)
                /\ \A v \in Workers \ {w} : ~is_alive(v)
                /\ AnalyzerStep(w)]_vars

\* A second worker is inside analyze_system_state after the first one, which
\* had made a call of its own, was stopped and joined.
C11_Witness ==
    /\ joined = {1}
    /\ pc[1] = "finished"
    /\ pc[2] \in {"throughput", "append", "classify"}
    /\ analyzer.total_seconds_monitored = 2

\* C12: a call of analyze_system_state in which the sampler raises leaves the
\* analyzer exactly as it was (clock, cumulative total, series, log, contention
\* snapshot), hands nothing to the callback, and the worker that made the call
\* stays alive to poll again.
C12_SamplerFailureSkipsIteration ==
    [][calls'.raised # calls.raised =>
        /\ analyzer' = analyzer
        /\ callback_log' = callback_log
        /\ \A w \in Workers : pc[w] = "analyze" => pc'[w] \notin {"crashed", "finished"}]_vars

\* C13: a worker is never built or started with a polling interval that is not
\* positive: toggle_monitoring refuses such an interval, so every worker that
\* has left its unborn state has a positive interval and the polling loop never
\* runs, and analyze_system_state is never called, under any other.
C13_NonPositiveIntervalFailsFast ==
    \A w \in Workers : pc[w] # "unborn" => polling_interval_sec[w] > 0

\* C14: a call of analyze_system_state on a sample holding a malformed entry
\* (negative wait time, or none) does not fail: it returns what the contention
\* check gives for the sample without the malformed entries, and the clock, the
\* cumulative total and the series have advanced by exactly one tick.
WellFormed(e) == HasWaitTime(e) /\ e.Total_Wait_Time >= 0
HasMalformedEntry(live) ==
    \E i \in 1..Len(live.contention) : ~WellFormed(live.contention[i])

C15_QuietTickAndInjectionWindow ==
    calls.ok >= 1 =>
        LET c == supplied[Len(supplied)].contention
            now == analyzer.total_seconds_monitored
            quiet == \A i \in 1..Len(c) : c[i].Total_Wait_Time <= 30
            injected == result # <<>> /\ result[1].message[1] = "DEADLOCK (MOCKED)"
        IN  /\ (quiet /\ result # <<>>) => (15 < now /\ now < 17)
            /\ (quiet /\ result # <<>>) => injected
            /\ injected =>
                /\ 15 < now /\ now < 17
                /\ quiet
                /\ result[1].type = "ERROR"
                /\ result[1].time = now
                /\ \E k \in 1..Len(deadlock_pairs) :
                       result[1].message = <<"DEADLOCK (MOCKED)", deadlock_pairs[k][1],
                                             deadlock_pairs[k][2]>>

\* C15 witness: the call at clock value 16 was quiet and returned the injected
\* event, after quiet calls outside the window that returned nothing.
C15_Witness ==
    /\ analyzer.total_seconds_monitored = 16
    /\ result # <<>>
    /\ result[1].message[1] = "DEADLOCK (MOCKED)"
    /\ \E n \in 1..15 : supplied[n].contention = QuietContention
    /\ supplied[16].contention = QuietContention

\* The state of the lifecycle a worker is in: 0 Created (the object is not yet
\* started), 1 Running, 2 StopRequested (alive, stop() called), 3 Stopped (run
\* has returned or raised).
Lifecycle(at, stopping) ==
    IF at = "unborn" THEN 0
    ELSE IF at \in {"finished", "crashed"} THEN 3
    ELSE IF stopping THEN 2 ELSE 1

C19_AtMostOneIterationAfterStop ==
    \A w \in Workers :
        /\ since_stop[w].evaluate <= 1
        /\ since_stop[w].callback <= 1

\* C19 witness: worker w was stopped after it had passed the loop test; it then
\* made its one more call, invoked the callback with what it found, slept, and
\* is back at the loop test, which will end it.
C19_Witness ==
    \E w \in Workers :
        /\ since_stop[w] = [evaluate |-> 1, callback |-> 1]
        /\ stop_event[w]
        /\ pc[w] = "check"

\* C18: the log only grows at its end (no step changes or removes an entry it
\* holds), an entry appended by a call carries the clock value of that call as
\* its time, and the times of consecutive entries increase strictly.
C18_LogAppendOnlyOrderedByTime ==
    /\ [](\A i \in 1..(Len(analyzer.events) - 1) :
             analyzer.events[i].time < analyzer.events[i + 1].time)
    /\ [][/\ IsPrefix(analyzer.events, analyzer'.events)
          /\ Len(analyzer'.events) <= Len(analyzer.events) + 1
          /\ (analyzer'.events # analyzer.events =>
                analyzer'.events[Len(analyzer'.events)].time =
                    analyzer'.total_seconds_monitored)]_vars

\* C18 witness: the log holds a contention event of an early call and, after
\* calls that logged nothing, the injected event of the call at clock value 16.
C18_Witness ==
    /\ Len(analyzer.events) >= 2
    /\ analyzer.events[1].time < 15
    /\ analyzer.events[Len(analyzer.events)].time = 16
    /\ analyzer.events[Len(analyzer.events)].message[1] = "DEADLOCK (MOCKED)"
    /\ Len(analyzer.events) < calls.ok

InjectedEvents(a) ==
    {i \in 1..Len(a.events) : a.events[i].message[1] = "DEADLOCK (MOCKED)"}

\* C20: the analyzer outlives the workers: the step that builds and starts a
\* worker leaves the analyzer as it is, and no step ever takes the clock or the
\* cumulative total back or shortens or rewrites the series or the log, so a
\* new worker goes on from the values the previous one left; and the log never
\* holds more than one injected deadlock event.
C20_AnalyzerSurvivesRestart ==
    /\ [](Cardinality(InjectedEvents(analyzer)) <= 1)
    /\ [][/\ (\E w \in Workers : pc[w] = "unborn" /\ pc'[w] # "unborn") =>
                analyzer' = analyzer
          /\ analyzer'.total_seconds_monitored >= analyzer.total_seconds_monitored
          /\ analyzer'.cumulative_transferred >= analyzer.cumulative_transferred
          /\ IsPrefix(analyzer.throughput_data.Time, analyzer'.throughput_data.Time)
          /\ IsPrefix(analyzer.throughput_data.Cumulative_Transferred,
                      analyzer'.throughput_data.Cumulative_Transferred)
          /\ IsPrefix(analyzer.events, analyzer'.events)]_vars

\* C20 witness: worker 1 polled, was stopped and joined; worker 2, built on the
\* same analyzer, polled on from where worker 1 stopped, through the deadlock
\* window, and the log holds the one injected event.
C20_Witness ==
    /\ joined = {1}
    /\ live_data[1] # <<>>
    /\ live_data[2] # <<>>
    /\ is_alive(2)
    /\ analyzer.total_seconds_monitored = 17
    /\ Len(analyzer.throughput_data.Cumulative_Transferred) = 17
    /\ Cardinality(InjectedEvents(analyzer)) = 1

====
